---- MODULE Spec2Model ----
(***************************************************************************)
(* Clifford-steerable kernels: the composed kernel (modules/conv/ckernel), *)
(* the scalar shell (modules/conv/shell) and the residual network built    *)
(* from them (models/resnets/csresmnist).                                  *)
(*                                                                         *)
(* A tensor is a record [shape, val]: shape is the tuple of axis lengths,  *)
(* val maps every index tuple (0-based, one entry per axis) to the entry.  *)
(* An exception is a record [err, at].                                     *)
(***************************************************************************)
EXTENDS Integers, Sequences, FiniteSets, TLC

VARIABLES
    kin, kout,      \* ckernel.py: the arguments of a call, its result
    sin, sout,      \* shell.py: the parameters and input of a call, its result
    nin, nout       \* csresmnist.py: a module and its input, the state of the call

kvars == <<kin, kout>>

svars == <<sin, sout>>

nvars == <<nin, nout>>

vars == <<kin, kout, sin, sout, nin, nout>>

\* ------------------------------------------------------------------ bounds
MaxDim == 2      \* algebra dimension d, n_blades = 2^d
MaxAxis == 4     \* length of a channel axis of a kernel tensor handed to conv_kernel
MaxK == 2        \* spatial kernel size
MaxC == 2        \* c_in, c_out of a module
DrawLevels == 3  \* values random.uniform can return in [0, 1): m / DrawLevels
MaxSigma == 3    \* numerator and denominator of a width handed to compute_scalar_shell
MaxStride == 2   \* stride and expansion of a basic block
MaxX == 4        \* spatial size of an input field

\* --------------------------------------------------------- array primitives
RECURSIVE Prod(_)
Prod(s) == IF s = << >> THEN 1 ELSE Head(s) * Prod(Tail(s))

RECURSIVE SumSeq(_)
SumSeq(s) == IF s = << >> THEN 0 ELSE Head(s) + SumSeq(Tail(s))

RECURSIVE Pow2(_)
Pow2(d) == IF d = 0 THEN 1 ELSE 2 * Pow2(d - 1)

\* row-major (C order) offset of an index tuple
RECURSIVE Ravel(_, _)
Ravel(idx, shape) ==
    IF idx = << >> THEN 0
    ELSE Head(idx) * Prod(Tail(shape)) + Ravel(Tail(idx), Tail(shape))

\* the index tuple at a row-major offset
Unravel(f, shape) ==
    [j \in 1..Len(shape) |->
        (f \div Prod(SubSeq(shape, j + 1, Len(shape)))) % shape[j]]

Axis(shape, j) == 0..(shape[j] - 1)

\* every index tuple of a tensor of the given shape (up to six axes)
Indices(shape) ==
    CASE Len(shape) = 0 -> {<< >>}
      [] Len(shape) = 1 -> {<<a>> : a \in Axis(shape, 1)}
      [] Len(shape) = 2 -> Axis(shape, 1) \X Axis(shape, 2)
      [] Len(shape) = 3 -> Axis(shape, 1) \X Axis(shape, 2) \X Axis(shape, 3)
      [] Len(shape) = 4 ->
            Axis(shape, 1) \X Axis(shape, 2) \X Axis(shape, 3) \X Axis(shape, 4)
      [] Len(shape) = 5 ->
            Axis(shape, 1) \X Axis(shape, 2) \X Axis(shape, 3) \X Axis(shape, 4)
                \X Axis(shape, 5)
      [] Len(shape) = 6 ->
            Axis(shape, 1) \X Axis(shape, 2) \X Axis(shape, 3) \X Axis(shape, 4)
                \X Axis(shape, 5) \X Axis(shape, 6)

Raise(kind, where) == [err |-> kind, at |-> where]

IsErr(x) == "err" \in DOMAIN x

\* ndarray.reshape: the entries keep their row-major order
reshape(t, ns) ==
    IF Prod(ns) # Prod(t.shape) THEN Raise("TypeError", "reshape")
    ELSE [shape |-> ns,
          val |-> [idx \in Indices(ns) |-> t.val[Unravel(Ravel(idx, ns), t.shape)]]]

\* ndarray.transpose(*perm): axis j of the result is axis perm[j] of t (0-based)
transpose(t, perm) ==
    LET n == Len(perm)
        src(idx) == [a \in 1..n |-> idx[CHOOSE j \in 1..n : perm[j] + 1 = a]]
        ns == [j \in 1..n |-> t.shape[perm[j] + 1]]
    IN  [shape |-> ns, val |-> [idx \in Indices(ns) |-> t.val[src(idx)]]]

\* t[i] along axis 0
Slice(t, i) ==
    LET ns == Tail(t.shape)
    IN  [shape |-> ns, val |-> [idx \in Indices(ns) |-> t.val[<<i>> \o idx]]]

\* jnp.stack(outs): n tensors of one shape, stacked on a new axis 0
Stack(n, outs) ==
    LET ns == <<n>> \o outs[0].shape
    IN  [shape |-> ns, val |-> [idx \in Indices(ns) |-> outs[idx[1]].val[Tail(idx)]]]

\* ------------------------------------------------------------- ckernel.py
\* (mutant) the leading block kept instead of an exception when n_blades does not divide
reshape_mv_tensor_crop(n_blades, tensor) ==
    LET dims == SubSeq(tensor.shape, 3, Len(tensor.shape))
        M == tensor.shape[1] \div n_blades
        N == tensor.shape[2] \div n_blades
        cs == <<M * n_blades, N * n_blades>> \o dims
    IN  IF M = 0 \/ N = 0 THEN Raise("TypeError", "reshape")
        ELSE reshape([shape |-> cs, val |-> [idx \in Indices(cs) |-> tensor.val[idx]]],
                     <<M, n_blades, N, n_blades>> \o dims)

reshape_mv_tensor(n_blades, tensor) ==
    LET A == tensor.shape[1]
        B == tensor.shape[2]
        dims == SubSeq(tensor.shape, 3, Len(tensor.shape))
        M == A \div n_blades
        N == B \div n_blades
    IN  reshape(tensor, <<M, n_blades, N, n_blades>> \o dims)

\* (mutant) the two channel axes exchanged
reshape_back_swapped(n_blades, tensor) ==
    LET M == tensor.shape[1]
        N == tensor.shape[3]
        dims == SubSeq(tensor.shape, 5, Len(tensor.shape))
    IN  reshape(tensor, <<N * n_blades, M * n_blades>> \o dims)

reshape_back(n_blades, tensor) ==
    LET M == tensor.shape[1]
        N == tensor.shape[3]
        dims == SubSeq(tensor.shape, 5, Len(tensor.shape))
        A == M * n_blades
        B == N * n_blades
    IN  reshape(tensor, <<A, B>> \o dims)

\* XLA's SAME padding at stride 1: the low side gets the smaller half
PadLo(window) == (window - 1) \div 2

\* the general cross-correlation of lhs (batch, feature, H, W) with rhs
\* (out, feature, KH, KW) at stride 1: pad is the low padding, (OH, OW) the
\* output size, flip whether the window is reversed (a true convolution)
Correlate(lhs, rhs, padH, padW, OH, OW, flip) ==
    IF lhs.shape[2] # rhs.shape[2] THEN Raise("ValueError", "lax.conv")
    ELSE LET C == lhs.shape[2]
             H == lhs.shape[3]
             W == lhs.shape[4]
             KH == rhs.shape[3]
             KW == rhs.shape[4]
             win == <<C, KH, KW>>
             term(n, o, y, x, w) ==
                 LET yy == y + w[2] - padH
                     xx == x + w[3] - padW
                     ky == IF flip THEN KH - 1 - w[2] ELSE w[2]
                     kx == IF flip THEN KW - 1 - w[3] ELSE w[3]
                 IN  IF yy < 0 \/ yy >= H \/ xx < 0 \/ xx >= W THEN 0
                     ELSE lhs.val[<<n, w[1], yy, xx>>] * rhs.val[<<o, w[1], ky, kx>>]
             ns == <<lhs.shape[1], rhs.shape[1], OH, OW>>
         IN  IF OH < 1 \/ OW < 1 THEN Raise("ValueError", "lax.conv")
             ELSE [shape |-> ns,
                   val |-> [idx \in Indices(ns) |->
                       SumSeq([f \in 1..Prod(win) |->
                           term(idx[1], idx[2], idx[3], idx[4], Unravel(f - 1, win))])]]

\* (mutant) padding="VALID"
lax_conv_valid(lhs, rhs) ==
    Correlate(lhs, rhs, 0, 0, lhs.shape[3] - rhs.shape[3] + 1,
              lhs.shape[4] - rhs.shape[4] + 1, FALSE)

\* (mutant) the window reversed: a convolution instead of a cross-correlation
lax_conv_flipped(lhs, rhs) ==
    Correlate(lhs, rhs, rhs.shape[3] - 1 - PadLo(rhs.shape[3]),
              rhs.shape[4] - 1 - PadLo(rhs.shape[4]), lhs.shape[3], lhs.shape[4], TRUE)

\* jax.lax.conv(lhs, rhs, window_strides=(1,1), padding="SAME"): the output
\* keeps lhs's spatial size, the window is not flipped
lax_conv(lhs, rhs) ==
    Correlate(lhs, rhs, PadLo(rhs.shape[3]), PadLo(rhs.shape[4]),
              lhs.shape[3], lhs.shape[4], FALSE)

conv_kernel_11(k1, k2) == lax_conv(k1, k2)

\* jax.vmap(_conv_kernel_11, in_axes=(0, 0)): the mapped axes must agree in length
conv_kernel_14(k1, k2) ==
    IF k1.shape[1] # k2.shape[1] THEN Raise("ValueError", "vmap")
    ELSE LET outs == [i \in 0..(k1.shape[1] - 1) |->
                         conv_kernel_11(Slice(k1, i), Slice(k2, i))]
         IN  IF IsErr(outs[0]) THEN outs[0] ELSE Stack(k1.shape[1], outs)

\* jax.vmap(_conv_kernel_14, in_axes=(0, 0))
conv_kernel_vmap(k1, k2) ==
    IF k1.shape[1] # k2.shape[1] THEN Raise("ValueError", "vmap")
    ELSE LET outs == [i \in 0..(k1.shape[1] - 1) |->
                         conv_kernel_14(Slice(k1, i), Slice(k2, i))]
         IN  IF IsErr(outs[0]) THEN outs[0] ELSE Stack(k1.shape[1], outs)

BladePerm == <<0, 2, 1, 3, 4, 5>>

\* the result, with the stages that ran before it was returned or raised
conv_kernel(n_blades, k1, k2) ==
    LET r1 == reshape_mv_tensor(n_blades, k1)
        r2 == reshape_mv_tensor(n_blades, k2)
    IN  IF IsErr(r1) THEN [out |-> r1, ran |-> <<"reshape_mv_tensor">>]
        ELSE IF IsErr(r2)
        THEN [out |-> r2, ran |-> <<"reshape_mv_tensor", "reshape_mv_tensor">>]
        ELSE LET t1 == transpose(r1, BladePerm)
                 t2 == transpose(r2, BladePerm)
                 k == conv_kernel_vmap(t1, t2)
                 pre == <<"reshape_mv_tensor", "reshape_mv_tensor", "vmap">>
             IN  IF IsErr(k)
                 THEN [out |-> k,
                       ran |-> IF k.at = "lax.conv" THEN pre \o <<"lax.conv">> ELSE pre]
                 ELSE [out |-> reshape_back(n_blades, transpose(k, BladePerm)),
                       ran |-> pre \o <<"lax.conv", "reshape_back">>]

\* ------------------------------------------------------------ input tensors
\* jnp.arange(size).reshape(shape): every entry is its own row-major offset
Arange(shape) ==
    [shape |-> shape, val |-> [idx \in Indices(shape) |-> Ravel(idx, shape)]]

\* a tensor with a single 1, at row-major offset p
OneHot(shape, p) ==
    [shape |-> shape,
     val |-> [idx \in Indices(shape) |-> IF Ravel(idx, shape) = p THEN 1 ELSE 0]]

\* a tensor of entries 1..7 that differ between neighbouring offsets
Ramp(shape, s) ==
    [shape |-> shape,
     val |-> [idx \in Indices(shape) |-> ((Ravel(idx, shape) * s + s) % 7) + 1]]

\* the kernels a CliffordSteerableKernel may return: one-hot kernels (the 1 at
\* the middle or at the last offset) and a dense one
KernelValues(shape) ==
    {OneHot(shape, p) : p \in {Prod(shape) \div 2, Prod(shape) - 1}}
        \cup {Ramp(shape, 2)}

\* CliffordSteerableKernel(...)(): a kernel of shape
\* (c_out * n_blades, c_in * n_blades, kernel_size, kernel_size)
CliffordSteerableKernelShape(n_blades, c_in, c_out, kernel_size) ==
    <<c_out * n_blades, c_in * n_blades, kernel_size, kernel_size>>

\* the algebra of a composed kernel has dimension 2: its kernels have two
\* spatial axes (window_strides=(1,1), six axes transposed)
KernelDim == 2

\* ---------------------------------------------------------------- actions
KIdle == [op |-> "none"]

SIdle == [op |-> "none"]

NIdle == [op |-> "none"]

\* the calls made on the kernel module: the arguments of each
RoundTripInputs ==
    {[op |-> "round_trip", n_blades |-> Pow2(d),
      t |-> Arange(<<A, B>> \o [j \in 1..rank |-> k + j - 1])] :
        d \in 1..MaxDim, A \in 1..MaxAxis, B \in 1..MaxAxis,
        rank \in 0..2, k \in 1..MaxK}

ConvKernelInputs ==
    {[op |-> "conv_kernel", n_blades |-> Pow2(d),
      k1 |-> Ramp(<<A1, B1, s1, s1>>, 1), k2 |-> Ramp(<<A2, B2, s2, s2>>, 2)] :
        d \in 1..MaxDim, A1 \in 1..MaxAxis, B1 \in 1..MaxAxis, s1 \in 1..MaxK,
        A2 \in 1..MaxAxis, B2 \in 1..MaxAxis, s2 \in 1..MaxK}

\* a ComposedCliffordSteerableKernel and the two kernels its submodules return
ComposedInputs ==
    UNION {
        LET nb == Pow2(KernelDim)
            shape == CliffordSteerableKernelShape(nb, ci, co, k)
        IN  {[op |-> "composed", n_blades |-> nb, c_in |-> ci, c_out |-> co,
              kernel_size |-> k, k1 |-> v, k2 |-> Ramp(shape, 3)] :
                v \in KernelValues(shape)}
        : ci \in 1..MaxC, co \in 1..MaxC, k \in 1..MaxK}

InitKernel ==
    /\ kin \in (RoundTripInputs \cup ConvKernelInputs \cup ComposedInputs)
    /\ kout = KIdle
    /\ sin = SIdle /\ sout = SIdle
    /\ nin = NIdle /\ nout = NIdle

\* reshape_back(algebra, reshape_mv_tensor(algebra, t)) on a tensor (A, B, *dims)
ReshapeRoundTrip ==
    /\ kin.op = "round_trip" /\ kout = KIdle
    /\ LET mv == reshape_mv_tensor(kin.n_blades, kin.t)
       IN  kout' = [op |-> "round_trip", mv |-> mv,
                    back |-> IF IsErr(mv) THEN mv ELSE reshape_back(kin.n_blades, mv)]
    /\ UNCHANGED <<kin, sin, sout, nin, nout>>

\* conv_kernel on two tensors of any shapes
CallConvKernel ==
    /\ kin.op = "conv_kernel" /\ kout = KIdle
    /\ LET r == conv_kernel(kin.n_blades, kin.k1, kin.k2)
       IN  kout' = [op |-> "conv_kernel", out |-> r.out, ran |-> r.ran]
    /\ UNCHANGED <<kin, sin, sout, nin, nout>>

\* ComposedCliffordSteerableKernel.__call__
ComposedCall ==
    /\ kin.op = "composed" /\ kout = KIdle
    /\ LET r == conv_kernel(kin.n_blades, kin.k1, kin.k2)
       IN  kout' = [op |-> "composed", out |-> r.out, ran |-> r.ran]
    /\ UNCHANGED <<kin, sin, sout, nin, nout>>

NextKernel == ReshapeRoundTrip \/ CallConvKernel \/ ComposedCall

SpecKernel == InitKernel /\ [][NextKernel]_vars

\* ------------------------------------------------------- claims: ckernel
Divides(n, a) == a % n = 0

\* C1: for a tensor (A, B, *dims) with n_blades dividing A and B,
\* reshape_back(reshape_mv_tensor(t)) has t's shape and t's entry at every index
C1_RoundTrip ==
    (kout.op = "round_trip"
        /\ Divides(kin.n_blades, kin.t.shape[1]) /\ Divides(kin.n_blades, kin.t.shape[2]))
    => /\ ~IsErr(kout.back)
       /\ kout.back.shape = kin.t.shape
       /\ \A idx \in Indices(kin.t.shape) : kout.back.val[idx] = kin.t.val[idx]

C1_Witness ==
    /\ kout.op = "round_trip" /\ ~IsErr(kout.back)
    /\ kin.t.shape[1] > kin.n_blades /\ kin.t.shape[2] = kin.n_blades
    /\ Len(kin.t.shape) = 4

\* spatial cross-correlation (stride 1, SAME) at (y, x) of k1's block
\* (o, i, a, c) with k2's block (o, i, b, c2), read off the fused layout
BlockCorr(nb, k1, k2, o, i, a, c, b, c2, y, x) ==
    LET K == k2.shape[3]
        H == k1.shape[3]
    IN  SumSeq([f \in 1..(K * K) |->
            LET dy == (f - 1) \div K
                dx == (f - 1) % K
                yy == y + dy - PadLo(K)
                xx == x + dx - PadLo(K)
            IN  IF yy < 0 \/ yy >= H \/ xx < 0 \/ xx >= H THEN 0
                ELSE k1.val[<<o * nb + a, i * nb + c, yy, xx>>]
                        * k2.val[<<o * nb + b, i * nb + c2, dy, dx>>]])

\* C2 as stated: block (o, i, a, b) of the result is the cross-correlation of
\* k1's block (o, i, a, b) with k2's block (o, i, a, b) and nothing else
C2_BlockwiseOnly ==
    kout.op = "composed" =>
        /\ ~IsErr(kout.out)
        /\ \A o \in 0..(kin.c_out - 1), i \in 0..(kin.c_in - 1),
              a \in 0..(kin.n_blades - 1), b \in 0..(kin.n_blades - 1),
              y \in 0..(kin.kernel_size - 1), x \in 0..(kin.kernel_size - 1) :
              kout.out.val[<<o * kin.n_blades + a, i * kin.n_blades + b, y, x>>]
                = BlockCorr(kin.n_blades, kin.k1, kin.k2, o, i, a, b, a, b, y, x)

\* C2 amended: block (o, i, a, b) of the result is the sum over the blade c of
\* the cross-correlations of k1's block (o, i, a, c) with k2's block (o, i, b, c);
\* only blocks of the channel pair (o, i) contribute
C2_BladeContraction ==
    kout.op = "composed" =>
        /\ ~IsErr(kout.out)
        /\ \A o \in 0..(kin.c_out - 1), i \in 0..(kin.c_in - 1),
              a \in 0..(kin.n_blades - 1), b \in 0..(kin.n_blades - 1),
              y \in 0..(kin.kernel_size - 1), x \in 0..(kin.kernel_size - 1) :
              kout.out.val[<<o * kin.n_blades + a, i * kin.n_blades + b, y, x>>]
                = SumSeq([c \in 1..kin.n_blades |->
                    BlockCorr(kin.n_blades, kin.k1, kin.k2, o, i, a, c - 1, b, c - 1, y, x)])

C2_Witness ==
    /\ kout.op = "composed" /\ ~IsErr(kout.out)
    /\ kin.c_in = 2 /\ kin.c_out = 2 /\ kin.kernel_size = 2
    /\ \E idx \in Indices(kout.out.shape) : kout.out.val[idx] # 0

\* C3: for k1 and k2 both of shape (c_out*n_blades, c_in*n_blades, k, k) the
\* result is a tensor of that same shape
C3_SameShape ==
    /\ kout.op = "composed" =>
        /\ ~IsErr(kout.out)
        /\ kout.out.shape = <<kin.c_out * kin.n_blades, kin.c_in * kin.n_blades,
                              kin.kernel_size, kin.kernel_size>>
    /\ (kout.op = "conv_kernel" /\ kin.k1.shape = kin.k2.shape
            /\ Divides(kin.n_blades, kin.k1.shape[1])
            /\ Divides(kin.n_blades, kin.k1.shape[2]))
        => (~IsErr(kout.out) /\ kout.out.shape = kin.k1.shape)

C3_Witness ==
    /\ kout.op = "conv_kernel" /\ ~IsErr(kout.out)
    /\ kin.k1.shape = kin.k2.shape
    /\ kin.k1.shape[1] # kin.k1.shape[2] /\ kin.k1.shape[3] = 2

MisShaped(nb, t) == ~Divides(nb, t.shape[1]) \/ ~Divides(nb, t.shape[2])

RaisedBeforeContraction ==
    /\ IsErr(kout.out)
    /\ \A j \in 1..Len(kout.ran) : kout.ran[j] # "lax.conv"

\* C8 as stated: a channel axis that n_blades does not divide, or k1 and k2 of
\* different shapes, ends in an error raised before the contraction
C8_MisShapedRaises ==
    (kout.op = "conv_kernel"
        /\ (MisShaped(kin.n_blades, kin.k1) \/ MisShaped(kin.n_blades, kin.k2)
            \/ kin.k1.shape # kin.k2.shape))
    => RaisedBeforeContraction

\* C8 amended: a channel axis that n_blades does not divide, or k1 and k2 that
\* differ in a channel axis, ends in an error raised before the contraction;
\* k1 and k2 that differ in the spatial size alone give a tensor of k1's shape
C8_ChannelMismatchRaises ==
    kout.op = "conv_kernel" =>
        IF MisShaped(kin.n_blades, kin.k1) \/ MisShaped(kin.n_blades, kin.k2)
            \/ kin.k1.shape[1] # kin.k2.shape[1] \/ kin.k1.shape[2] # kin.k2.shape[2]
        THEN RaisedBeforeContraction
        ELSE ~IsErr(kout.out) /\ kout.out.shape = kin.k1.shape

C8_Witness ==
    /\ kout.op = "conv_kernel" /\ IsErr(kout.out)
    /\ MisShaped(kin.n_blades, kin.k2) /\ ~MisShaped(kin.n_blades, kin.k1)

\* --------------------------------------------------------------- algebra
\* CliffordAlgebra of dimension d with a diagonal metric of entries +1 / -1
Metrics(d) == [1..d -> {1, -1}]

RECURSIVE Choose(_, _)
Choose(n, k) == IF k = 0 THEN 1 ELSE IF n = 0 THEN 0
                ELSE Choose(n - 1, k - 1) + Choose(n - 1, k)

\* algebra.subspaces: the number of blades of every grade 0..d
Subspaces(d) == [g \in 1..(d + 1) |-> Choose(d, g - 1)]

\* algebra.q(algebra.embed_grade(v, 1)) for v of shape (N, 1, d): shape (N, 1, 1)
QuadraticForm(metric, v) ==
    LET ns == <<v.shape[1], 1, 1>>
    IN  [shape |-> ns,
         val |-> [idx \in Indices(ns) |->
             SumSeq([i \in 1..Len(metric) |->
                 metric[i] * v.val[<<idx[1], 0, i - 1>>] * v.val[<<idx[1], 0, i - 1>>]])]]

\* the offsets of a kernel grid of size 3 in d dimensions, as a tensor (N, 1, d)
GridOffsets(d) ==
    LET gs == [j \in 1..d |-> 3]
        ns == <<Prod(gs), 1, d>>
    IN  [shape |-> ns,
         val |-> [idx \in Indices(ns) |-> Unravel(idx[1], gs)[idx[3] + 1] - 1]]

\* ---------------------------------------------------------------- shell.py
\* a positive rational is [num, den]; a shell value [sgn, num, den] is
\* sgn * exp(-num / den)
WidthScaleTenths == 2

WidthFloorTenths == 4

Abs(n) == IF n < 0 THEN -n ELSE n

RECURSIVE GCD(_, _)
GCD(a, b) == IF b = 0 THEN a ELSE GCD(b, a % b)

\* a fraction in lowest terms (den > 0)
Fraction(n, d) ==
    LET g == GCD(Abs(n), d) IN [num |-> n \div g, den |-> d \div g]

RAdd(a, b) == Fraction(a.num * b.den + b.num * a.den, a.den * b.den)

\* uniform(scale=0.2): random.uniform's m / DrawLevels in [0, 1), times the scale
uniform_init(m) == Fraction(WidthScaleTenths * m, 10 * DrawLevels)

\* (mutant) the floor subtracted instead of added
kernel_width_minus(raw) ==
    [shape |-> raw.shape,
     val |-> [idx \in Indices(raw.shape) |->
         RAdd(raw.val[idx], [num |-> -WidthFloorTenths, den |-> 10])]]

\* self.param("kernel_width", uniform(scale=0.2), shape) + 0.4
kernel_width_of(raw) ==
    [shape |-> raw.shape,
     val |-> [idx \in Indices(raw.shape) |->
         RAdd(raw.val[idx], [num |-> WidthFloorTenths, den |-> 10])]]

RECURSIVE RepeatSeq(_, _)
RepeatSeq(seq, reps) ==
    IF seq = << >> THEN << >>
    ELSE [j \in 1..Head(reps) |-> Head(seq)] \o RepeatSeq(Tail(seq), Tail(reps))

\* (mutant) jnp.tile-like: the entries cycled instead of repeated in place
repeat_source_cycled(n, reps) == [j \in 1..SumSeq(reps) |-> (j - 1) % n]

\* the source position along the axis of every position of jnp.repeat's result
repeat_source(n, reps) == RepeatSeq([g \in 1..n |-> g - 1], reps)

\* jnp.repeat(t, reps, axis=axis): entry g along the axis taken reps[g] times
\* (axis counted from 1)
repeat(t, reps, axis) ==
    LET srcs == repeat_source(t.shape[axis], reps)
        ns == [t.shape EXCEPT ![axis] = Len(srcs)]
    IN  [shape |-> ns,
         val |-> [idx \in Indices(ns) |->
             t.val[[idx EXCEPT ![axis] = srcs[idx[axis] + 1]]]]]

\* numpy broadcasting of two shapes of one rank
BroadcastShape(s1, s2) == [j \in 1..Len(s1) |-> IF s1[j] = 1 THEN s2[j] ELSE s1[j]]

BroadcastIndex(idx, shape) == [j \in 1..Len(shape) |-> IF shape[j] = 1 THEN 0 ELSE idx[j]]

\* sgn * jnp.exp(-jnp.abs(q_v) / (2 * sigma**2)), broadcast
ShellValues(q_v, sgn, sigma, absolute) ==
    LET ns == BroadcastShape(q_v.shape, sigma.shape)
    IN  [shape |-> ns,
         val |-> [idx \in Indices(ns) |->
             LET q == q_v.val[BroadcastIndex(idx, q_v.shape)]
                 s == sigma.val[BroadcastIndex(idx, sigma.shape)]
                 e == Fraction((IF absolute THEN Abs(q) ELSE q) * s.den * s.den,
                               2 * s.num * s.num)
             IN  [sgn |-> sgn.val[BroadcastIndex(idx, sgn.shape)],
                  num |-> e.num, den |-> e.den]]]

\* jnp.where(q_v >= 0, 1, -1)
SignOf(q_v) ==
    [shape |-> q_v.shape,
     val |-> [idx \in Indices(q_v.shape) |-> IF q_v.val[idx] >= 0 THEN 1 ELSE -1]]

\* (mutant) a symmetric signum: 0 at q = 0
compute_scalar_shell_signum(metric, v, sigma) ==
    LET q_v == QuadraticForm(metric, v)
        sgn == [shape |-> q_v.shape,
                val |-> [idx \in Indices(q_v.shape) |->
                    IF q_v.val[idx] > 0 THEN 1 ELSE IF q_v.val[idx] = 0 THEN 0 ELSE -1]]
    IN  ShellValues(q_v, sgn, sigma, TRUE)

\* (mutant) jnp.abs left out of the exponent
compute_scalar_shell_noabs(metric, v, sigma) ==
    LET q_v == QuadraticForm(metric, v)
    IN  ShellValues(q_v, SignOf(q_v), sigma, FALSE)

compute_scalar_shell(metric, v, sigma) ==
    LET q_v == QuadraticForm(metric, v)
        sgn == SignOf(q_v)
    IN  ShellValues(q_v, sgn, sigma, TRUE)

\* ScalarShell.__call__: the width after the floor, the width per blade, the shell
ScalarShell(metric, raw, x) ==
    LET d == Len(metric)
        kernel_width == kernel_width_of(raw)
        repeated == repeat(kernel_width, Subspaces(d), 3)
        sigma == reshape(repeated, <<1, Prod(repeated.shape) \div Pow2(d), Pow2(d)>>)
    IN  [width |-> kernel_width, sigma |-> sigma,
         shell |-> IF IsErr(sigma) THEN sigma ELSE compute_scalar_shell(metric, x, sigma)]

compute_composed_scalar_shell(metric, v, sigma) ==
    LET q0 == QuadraticForm(metric, v)
        q_v == reshape(q0, <<Prod(q0.shape), 1, 1, 1, 1>>)
        sgn == SignOf(q_v)
    IN  ShellValues(q_v, sgn, sigma, TRUE)

\* ComposedScalarShell.__call__
ComposedScalarShell(metric, raw, x) ==
    LET d == Len(metric)
        kernel_width == kernel_width_of(raw)
        kernel_width_out == repeat(kernel_width, Subspaces(d), 3)
        expanded == repeat(kernel_width_out, Subspaces(d), 4)
        sigma == [shape |-> <<1>> \o expanded.shape,
                  val |-> [idx \in Indices(<<1>> \o expanded.shape) |->
                      expanded.val[Tail(idx)]]]
    IN  [width |-> kernel_width, sigma |-> sigma,
         shell |-> compute_composed_scalar_shell(metric, x, sigma)]

\* the parameter "kernel_width" after initialization: one draw m0 everywhere
\* (step 0) or the draws m0, m0 + 1, ... (modulo DrawLevels) in row-major order
RawParams(shape, m0, step) ==
    [shape |-> shape,
     val |-> [idx \in Indices(shape) |->
         uniform_init((m0 + Ravel(idx, shape) * step) % DrawLevels)]]

ScalarShellInputs ==
    UNION {
        {[op |-> "ScalarShell", metric |-> metric, c_in |-> ci, c_out |-> co,
          raw |-> RawParams(<<co, ci, d + 1>>, m0, step), x |-> GridOffsets(d)] :
            metric \in Metrics(d), ci \in {1, MaxC}, co \in 1..MaxC,
            m0 \in 0..(DrawLevels - 1), step \in {0, 1}}
        : d \in 1..MaxDim}

ComposedShellInputs ==
    {[op |-> "ComposedScalarShell", metric |-> metric, c_in |-> ci, c_out |-> co,
      raw |-> RawParams(<<co, ci, KernelDim + 1, KernelDim + 1>>, m0, step),
      x |-> GridOffsets(KernelDim)] :
        metric \in Metrics(KernelDim), ci \in {1, MaxC}, co \in 1..MaxC,
        m0 \in 0..(DrawLevels - 1), step \in {0, 1}}

ComputeShellInputs ==
    UNION {
        {[op |-> "compute_scalar_shell", metric |-> metric, x |-> GridOffsets(d),
          sigma |-> [shape |-> <<1, 1, 1>>,
                     val |-> [idx \in Indices(<<1, 1, 1>>) |-> [num |-> sn, den |-> sd]]]] :
            metric \in Metrics(d), sn \in 1..MaxSigma, sd \in 1..MaxSigma}
        : d \in 1..MaxDim}

InitShell ==
    /\ sin \in (ScalarShellInputs \cup ComposedShellInputs \cup ComputeShellInputs)
    /\ sout = SIdle
    /\ kin = KIdle /\ kout = KIdle
    /\ nin = NIdle /\ nout = NIdle

CallScalarShell ==
    /\ sin.op = "ScalarShell" /\ sout = SIdle
    /\ LET r == ScalarShell(sin.metric, sin.raw, sin.x)
       IN  sout' = [op |-> "ScalarShell", width |-> r.width, sigma |-> r.sigma,
                    shell |-> r.shell]
    /\ UNCHANGED <<sin, kin, kout, nin, nout>>

CallComposedScalarShell ==
    /\ sin.op = "ComposedScalarShell" /\ sout = SIdle
    /\ LET r == ComposedScalarShell(sin.metric, sin.raw, sin.x)
       IN  sout' = [op |-> "ComposedScalarShell", width |-> r.width, sigma |-> r.sigma,
                    shell |-> r.shell]
    /\ UNCHANGED <<sin, kin, kout, nin, nout>>

CallComputeScalarShell ==
    /\ sin.op = "compute_scalar_shell" /\ sout = SIdle
    /\ sout' = [op |-> "compute_scalar_shell",
                shell |-> compute_scalar_shell(sin.metric, sin.x, sin.sigma)]
    /\ UNCHANGED <<sin, kin, kout, nin, nout>>

NextShell == CallScalarShell \/ CallComposedScalarShell \/ CallComputeScalarShell

SpecShell == InitShell /\ [][NextShell]_vars

\* --------------------------------------------------------- claims: shell
\* q(v) of position n of the call's input
QAt(n) ==
    SumSeq([i \in 1..Len(sin.metric) |->
        sin.metric[i] * sin.x.val[<<n, 0, i - 1>>] * sin.x.val[<<n, 0, i - 1>>]])

Positions == 0..(sin.x.shape[1] - 1)

ShellComputed == sout.op \in {"ScalarShell", "compute_scalar_shell"}

\* a shell value is exactly +1: sign +1 and exponent 0
IsPlusOne(e) == e.sgn = 1 /\ e.num = 0 /\ e.den > 0

\* C4: compute_scalar_shell is exactly +1 wherever q(v) = 0, for every sigma > 0;
\* its sign factor is +1 for q(v) >= 0, -1 for q(v) < 0 and never 0
C4_PlusOneOnNullCone ==
    ShellComputed =>
        \A idx \in Indices(sout.shell.shape) :
            LET e == sout.shell.val[idx]
                q == QAt(idx[1])
            IN  /\ q = 0 => IsPlusOne(e)
                /\ q >= 0 => e.sgn = 1
                /\ q < 0 => e.sgn = -1
                /\ e.sgn # 0

C4_Witness ==
    /\ sout.op = "compute_scalar_shell"
    /\ \E n \in Positions :
        /\ QAt(n) = 0
        /\ \E i \in 1..Len(sin.metric) : sin.x.val[<<n, 0, i - 1>>] # 0
        /\ IsPlusOne(sout.shell.val[<<n, 0, 0>>])
    /\ \E n \in Positions : QAt(n) < 0 /\ sout.shell.val[<<n, 0, 0>>].sgn = -1

WidthsInitialized == sout.op \in {"ScalarShell", "ComposedScalarShell"}

\* C5 as stated: every learned width is strictly greater than 0.4 after
\* initialization, in ScalarShell and in ComposedScalarShell
C5_WidthAboveFloor ==
    WidthsInitialized =>
        \A idx \in Indices(sout.width.shape) :
            sout.width.val[idx].num * 10 > WidthFloorTenths * sout.width.val[idx].den

\* C5 amended: every learned width is at least 0.4 after initialization (0.4
\* itself when the initializer draws 0), in ScalarShell and in ComposedScalarShell
C5_WidthAtLeastFloor ==
    WidthsInitialized =>
        \A idx \in Indices(sout.width.shape) :
            sout.width.val[idx].num * 10 >= WidthFloorTenths * sout.width.val[idx].den

C5_Witness ==
    /\ sout.op = "ComposedScalarShell"
    /\ \E idx \in Indices(sout.width.shape) :
        /\ sin.raw.val[idx].num = 0
        /\ sout.width.val[idx].num * 10 = WidthFloorTenths * sout.width.val[idx].den
    /\ \E idx \in Indices(sout.width.shape) : sin.raw.val[idx].num > 0

\* the grade (0-based) whose contiguous blade range contains blade b
GradeOf(subspaces, b) ==
    CHOOSE g \in 0..(Len(subspaces) - 1) :
        /\ SumSeq(SubSeq(subspaces, 1, g)) <= b
        /\ b < SumSeq(SubSeq(subspaces, 1, g + 1))

\* C6: in ScalarShell.__call__ the expanded width has shape
\* (1, c_out*c_in, n_blades) and, at channel pair o*c_in + i and blade b, holds
\* the learned width of (o, i) for the grade that contains b
C6_WidthPerGrade ==
    sout.op = "ScalarShell" =>
        LET d == Len(sin.metric)
            nb == Pow2(d)
        IN  SumSeq(Subspaces(d)) = nb =>
            /\ ~IsErr(sout.sigma)
            /\ sout.sigma.shape = <<1, sin.c_out * sin.c_in, nb>>
            /\ \A o \in 0..(sin.c_out - 1), i \in 0..(sin.c_in - 1), b \in 0..(nb - 1) :
                sout.sigma.val[<<0, o * sin.c_in + i, b>>]
                    = sout.width.val[<<o, i, GradeOf(Subspaces(d), b)>>]

C6_Witness ==
    /\ sout.op = "ScalarShell" /\ sin.c_in = 2 /\ sin.c_out = 2 /\ Len(sin.metric) = 2
    /\ ~IsErr(sout.sigma)
    /\ sout.sigma.val[<<0, 3, 1>>] = sout.sigma.val[<<0, 3, 2>>]
    /\ sout.sigma.val[<<0, 3, 0>>] # sout.sigma.val[<<0, 3, 1>>]
    /\ sout.sigma.val[<<0, 3, 2>>] # sout.sigma.val[<<0, 3, 3>>]

\* |a| >= |b| for shell values: exp(-a.num/a.den) >= exp(-b.num/b.den)
MagnitudeAtLeast(a, b) == a.num * b.den <= b.num * a.den

\* |e| <= 1: a sign of magnitude 1 and a non-positive exponent
MagnitudeAtMostOne(e) == Abs(e.sgn) = 1 /\ e.num >= 0 /\ e.den > 0

\* C7: for one sigma, |compute_scalar_shell| does not increase with |q(v)|, and
\* never exceeds 1
C7_MonotoneDecay ==
    /\ ShellComputed =>
        \A idx \in Indices(sout.shell.shape) : MagnitudeAtMostOne(sout.shell.val[idx])
    /\ sout.op = "compute_scalar_shell" =>
        \A n1 \in Positions, n2 \in Positions :
            Abs(QAt(n1)) <= Abs(QAt(n2)) =>
                MagnitudeAtLeast(sout.shell.val[<<n1, 0, 0>>], sout.shell.val[<<n2, 0, 0>>])

C7_Witness ==
    /\ sout.op = "compute_scalar_shell"
    /\ \E n1 \in Positions, n2 \in Positions :
        /\ QAt(n1) < 0 /\ Abs(QAt(n1)) < Abs(QAt(n2))
        /\ ~MagnitudeAtLeast(sout.shell.val[<<n2, 0, 0>>], sout.shell.val[<<n1, 0, 0>>])

\* ------------------------------------------------------------ csresmnist.py
\* a multivector field (N, channels, X_1, X_2, n_blades) is [shape]: the layers
\* are followed by the shapes they produce
Field(shape) == [shape |-> shape]

CeilDiv(a, b) == (a + b - 1) \div b

\* CliffordSteerableConv(c_in, c_out, stride, padding_mode="SAME")(x): the
\* channel axis must be c_in; every spatial axis is divided by the stride
CliffordSteerableConv(c_in, c_out, stride, x) ==
    IF x.shape[2] # c_in THEN Raise("ShapeMismatchError", "CliffordSteerableConv")
    ELSE Field([j \in 1..Len(x.shape) |->
            IF j = 2 THEN c_out
            ELSE IF j = 1 \/ j = Len(x.shape) THEN x.shape[j]
            ELSE CeilDiv(x.shape[j], stride)])

\* MVLayerNorm(algebra)(x) and MVGELU()(x) keep the shape
MVLayerNorm(x) == x

MVGELU(x) == x

\* jnp broadcasting of `out + x`
Add(out, x) ==
    LET a == out.shape
        b == x.shape
    IN  IF Len(a) # Len(b) \/ \E j \in 1..Len(a) : a[j] # b[j] /\ a[j] # 1 /\ b[j] # 1
        THEN Raise("TypeError", "add")
        ELSE Field([j \in 1..Len(a) |-> IF a[j] = 1 THEN b[j] ELSE a[j]])

\* CSBasicBlock.__call__: the shape returned (or the exception), with the two
\* shapes that met at `out += x`
CSBasicBlock(self, x0) ==
    LET c1 == CliffordSteerableConv(self.in_channels, self.channels, self.stride, x0)
    IN  IF IsErr(c1) THEN [out |-> c1, added |-> << >>]
        ELSE
        LET out1 == MVGELU(IF self.norm THEN MVLayerNorm(c1) ELSE c1)
            c2 == CliffordSteerableConv(self.channels, self.channels, self.stride, out1)
            out2 == IF self.norm THEN MVLayerNorm(c2) ELSE c2
            x == IF self.stride # 1 \/ self.in_channels # self.expansion * self.channels
                 THEN LET sc == CliffordSteerableConv(self.in_channels,
                                    self.expansion * self.channels, self.stride, x0)
                      IN  IF self.norm THEN MVLayerNorm(sc) ELSE sc
                 ELSE x0
            sum == IF IsErr(c2) THEN c2 ELSE IF IsErr(x) THEN x ELSE Add(out2, x)
        IN  [out |-> IF IsErr(sum) THEN sum ELSE MVGELU(sum),
             added |-> IF IsErr(c2) \/ IsErr(x) THEN << >> ELSE <<out2.shape, x.shape>>]

\* getattr(self, name) on a flax module: its dataclass fields and nothing else
GetAttr(self, name) ==
    IF name \in DOMAIN self THEN [value |-> self[name]] ELSE Raise("AttributeError", name)

\* the dataclass fields of CSResNetMnist
CSResNetMnistModule(c_in, c_out, hidden_channels, blocks, norm, make_channels) ==
    [algebra |-> KernelDim, c_in |-> c_in, c_out |-> c_out,
     hidden_channels |-> hidden_channels, kernel_num_layers |-> 1,
     kernel_hidden_dim |-> 1, kernel_size |-> 3, bias_dims |-> <<0>>,
     product_paths_sum |-> 16, blocks |-> blocks, norm |-> norm,
     make_channels |-> make_channels, padding_mode |-> "SAME"]

\* self.block_config: in_channels = channels = hidden_channels, default stride
\* and expansion
BlockConfig(self) ==
    [in_channels |-> self.hidden_channels, channels |-> self.hidden_channels,
     norm |-> self.norm, stride |-> 1, expansion |-> 1]

\* the layers of CSResNetMnist.__call__ up to the classifying layer
ForwardLayers(self) ==
    <<"conv1x1", "conv1x1">> \o [j \in 1..SumSeq(self.blocks) |-> "block"]
        \o <<"conv1x1", "conv1x1", "GradeNorm", "flatten", "Dense">>

BlockModules ==
    {[in_channels |-> ci, channels |-> ch, norm |-> nm, stride |-> st, expansion |-> ex] :
        ci \in 1..MaxC, ch \in 1..MaxC, nm \in BOOLEAN,
        st \in 1..MaxStride, ex \in 1..MaxStride}

BlockInputs ==
    {[op |-> "CSBasicBlock", self |-> m,
      x |-> Field(<<1, m.in_channels, X1, X2, Pow2(KernelDim)>>)] :
        m \in BlockModules, X1 \in 1..MaxX, X2 \in {1, MaxX}}

ForwardInputs ==
    {[op |-> "CSResNetMnist",
      self |-> CSResNetMnistModule(ci, co, hc, bl, nm, mc),
      x |-> Field(<<N, IF mc THEN 1 ELSE ci, X, X, Pow2(KernelDim)>>)] :
        ci \in 1..MaxC, co \in 1..MaxC, hc \in 1..MaxC,
        bl \in {<<2, 2, 2, 2>>, <<1>>, <<1, 2>>}, nm \in BOOLEAN, mc \in BOOLEAN,
        N \in 1..2, X \in {1, MaxX}}

InitNet ==
    /\ nin \in (BlockInputs \cup ForwardInputs)
    /\ nout = NIdle
    /\ kin = KIdle /\ kout = KIdle
    /\ sin = SIdle /\ sout = SIdle

CallBasicBlock ==
    /\ nin.op = "CSBasicBlock" /\ nout = NIdle
    /\ LET r == CSBasicBlock(nin.self, nin.x)
       IN  nout' = [op |-> "CSBasicBlock", out |-> r.out, added |-> r.added]
    /\ UNCHANGED <<nin, kin, kout, sin, sout>>

\* the call of CSResNetMnist starts: nothing applied yet
ForwardStart ==
    /\ nin.op = "CSResNetMnist" /\ nout = NIdle
    /\ nout' = [op |-> "CSResNetMnist", pc |-> "running", x |-> nin.x, layers |-> << >>]
    /\ UNCHANGED <<nin, kin, kout, sin, sout>>

Running == nout.op = "CSResNetMnist" /\ nout.pc = "running"

NextLayer == ForwardLayers(nin.self)[Len(nout.layers) + 1]

\* the result of a layer: the next shape, or the exception that ends the call
Step(layer, r) ==
    IF IsErr(r)
    THEN nout' = [nout EXCEPT !.pc = "raised", !.x = r, !.layers = @ \o <<layer>>]
    ELSE nout' = [nout EXCEPT !.x = r, !.layers = @ \o <<layer>>,
                              !.pc = IF layer = "Dense" THEN "done" ELSE "running"]

\* one of the four 1x1 convolutions (with MVGELU after all but the last)
ForwardConv ==
    /\ Running /\ NextLayer = "conv1x1"
    /\ LET self == nin.self
           n == Len(nout.layers)
           in_channels == IF ~self.make_channels THEN self.c_in ELSE 1
           out_channels == IF ~self.make_channels THEN self.c_out ELSE 1
           c_in == IF n = 0 THEN in_channels ELSE self.hidden_channels
           c_out == IF n = Len(ForwardLayers(self)) - 4 THEN out_channels
                    ELSE self.hidden_channels
           r == CliffordSteerableConv(c_in, c_out, 1, nout.x)
       IN  Step("conv1x1", IF IsErr(r) THEN r ELSE MVGELU(r))
    /\ UNCHANGED <<nin, kin, kout, sin, sout>>

ForwardBlock ==
    /\ Running /\ NextLayer = "block"
    /\ Step("block", CSBasicBlock(BlockConfig(nin.self), nout.x).out)
    /\ UNCHANGED <<nin, kin, kout, sin, sout>>

\* GradeNorm(algebra)(x): one norm per grade or per blade on the last axis
ForwardGradeNorm ==
    /\ Running /\ NextLayer = "GradeNorm"
    /\ \E last \in {Pow2(KernelDim), KernelDim + 1} :
        Step("GradeNorm", Field([nout.x.shape EXCEPT ![Len(nout.x.shape)] = last]))
    /\ UNCHANGED <<nin, kin, kout, sin, sout>>

\* x.reshape(x.shape[0], -1)
ForwardFlatten ==
    /\ Running /\ NextLayer = "flatten"
    /\ Step("flatten", Field(<<nout.x.shape[1], Prod(Tail(nout.x.shape))>>))
    /\ UNCHANGED <<nin, kin, kout, sin, sout>>

\* nn.Dense(features=self.out_features)(x)
ForwardDense ==
    /\ Running /\ NextLayer = "Dense"
    /\ LET features == GetAttr(nin.self, "out_features")
       IN  Step("Dense", IF IsErr(features) THEN features
                         ELSE Field(<<nout.x.shape[1], features.value>>))
    /\ UNCHANGED <<nin, kin, kout, sin, sout>>

NextNet ==
    \/ CallBasicBlock
    \/ ForwardStart
    \/ ForwardConv
    \/ ForwardBlock
    \/ ForwardGradeNorm
    \/ ForwardFlatten
    \/ ForwardDense

SpecNet == InitNet /\ [][NextNet]_vars

\* the three modules together
Init == InitKernel \/ InitShell \/ InitNet

Next == NextKernel \/ NextShell \/ NextNet

Spec == Init /\ [][Next]_vars

\* ----------------------------------------------------- claims: csresmnist
\* C9: for an input (N, in_channels, X_1, X_2, n_blades) CSBasicBlock returns
\* (N, channels, X_1, X_2, n_blades) for every stride, expansion, in_channels and
\* channels, and the two paths meet at `out += x` with equal shapes
C9_BlockKeepsShape ==
    nout.op = "CSBasicBlock" =>
        /\ ~IsErr(nout.out)
        /\ Len(nout.added) = 2 /\ nout.added[1] = nout.added[2]
        /\ nout.out.shape = [nin.x.shape EXCEPT ![2] = nin.self.channels]

\* C10: a forward call of CSResNetMnist applies its layers in order and
\* completes with an output of shape (N, out_features)
C10_ForwardCompletes ==
    (nout.op = "CSResNetMnist" /\ Len(nout.layers) = Len(ForwardLayers(nin.self))) =>
        /\ nout.pc = "done"
        /\ nout.layers = ForwardLayers(nin.self)
        /\ ~IsErr(nout.x)
        /\ Len(nout.x.shape) = 2 /\ nout.x.shape[1] = nin.x.shape[1]

====
